---- MODULE Spec2Model ----
(***************************************************************************)
(* Model of the raw-data processing pipeline of src/data_processing.py:   *)
(* load eight raw series, align them on month-end dates, derive the        *)
(* analysis features, drop incomplete rows and save the table.             *)
(*                                                                         *)
(* Numbers.  The program computes in IEEE doubles.  The model computes in  *)
(* exact rationals <<n, d>> (d > 0, lowest terms) extended with the three  *)
(* IEEE specials  <<0,0>> = NaN,  <<1,0>> = +inf,  <<-1,0>> = -inf.        *)
(* Irrational results are kept in closed form by appending components:     *)
(*   <<n, d, rn, rd>>  in a return or spread column = n/d + ln(rn/rd)      *)
(*   <<n, d, vn, vd>>  in a z_ column               = (n/d) / sqrt(vn/vd)  *)
(* A value is missing (NaN) exactly when its first two components are 0.   *)
(***************************************************************************)
EXTENDS Integers, Sequences, FiniteSets, TLC

----------------------------------------------------------------------------
(* Exact arithmetic with IEEE specials                                     *)

\* F applied to the value of e, with e evaluated once
Let1(e, F(_)) == CHOOSE r \in {F(v) : v \in {e}} : TRUE

\* a function on 1..n as an explicit tuple
Tup(f) == f \o << >>

NaN == <<0, 0>>

Abs(x) == IF x < 0 THEN -x ELSE x

Sign(x) == IF x < 0 THEN -1 ELSE IF x > 0 THEN 1 ELSE 0

RECURSIVE Gcd(_, _)
Gcd(a, b) == IF b = 0 THEN a ELSE Gcd(b, a % b)

\* the rational n/d in lowest terms with a positive denominator (d # 0)
Rat(n, d) ==
    Let1(<<n, d>>, LAMBDA p :
        Let1(Gcd(Abs(p[1]), Abs(p[2])), LAMBDA g :
            IF p[2] < 0 THEN <<-(p[1] \div g), -(p[2] \div g)>>
            ELSE <<p[1] \div g, p[2] \div g>>))

Int2R(k) == <<k, 1>>

isna(v) == v[1] = 0 /\ v[2] = 0

IsInf(v) == v[1] # 0 /\ v[2] = 0

IsFinite(v) == v[2] # 0

RNeg(a) == Let1(a, LAMBDA v : <<-v[1], v[2]>>)

RAddV(a, b) ==
    IF isna(a) \/ isna(b) THEN NaN
    ELSE IF IsInf(a) /\ IsInf(b) THEN (IF a[1] = b[1] THEN a ELSE NaN)
    ELSE IF IsInf(a) THEN a
    ELSE IF IsInf(b) THEN b
    ELSE Let1(Gcd(a[2], b[2]), LAMBDA g :
             Rat(a[1] * (b[2] \div g) + b[1] * (a[2] \div g), (a[2] \div g) * b[2]))

RAdd(a, b) == Let1(<<a, b>>, LAMBDA p : RAddV(p[1], p[2]))

RSub(a, b) == RAdd(a, RNeg(b))

RMulV(a, b) ==
    IF isna(a) \/ isna(b) THEN NaN
    ELSE IF IsInf(a) \/ IsInf(b)
         THEN (IF a[1] = 0 \/ b[1] = 0 THEN NaN ELSE <<Sign(a[1]) * Sign(b[1]), 0>>)
    ELSE Let1(<<Gcd(Abs(a[1]), b[2]), Gcd(Abs(b[1]), a[2])>>, LAMBDA g :
             Rat((a[1] \div g[1]) * (b[1] \div g[2]), (a[2] \div g[2]) * (b[2] \div g[1])))

RMul(a, b) == Let1(<<a, b>>, LAMBDA p : RMulV(p[1], p[2]))

\* IEEE division: x/0 is +-inf, 0/0 and inf/inf are NaN
RDivV(a, b) ==
    IF isna(a) \/ isna(b) THEN NaN
    ELSE IF IsInf(a) THEN (IF IsInf(b) THEN NaN
                           ELSE <<a[1] * (IF b[1] < 0 THEN -1 ELSE 1), 0>>)
    ELSE IF IsInf(b) THEN <<0, 1>>
    ELSE IF b[1] = 0 THEN (IF a[1] = 0 THEN NaN ELSE <<Sign(a[1]), 0>>)
    ELSE RMulV(a, Rat(b[2], b[1]))

RDiv(a, b) == Let1(<<a, b>>, LAMBDA p : RDivV(p[1], p[2]))

RLess(a, b) == Let1(<<a, b>>, LAMBDA p : p[1][1] * p[2][2] < p[2][1] * p[1][2])
----------------------------------------------------------------------------
(* Calendar.  A date is <<m, d>>: month number m counted from October     *)
(* 2013 (m = 0) and day of month d.  Dates compare lexicographically.      *)

CalYear(m) == 2013 + ((m + 9) \div 12)

CalMonth(m) == ((m + 9) % 12) + 1

DaysInMonth(m) ==
    IF CalMonth(m) = 2 THEN (IF CalYear(m) % 4 = 0 THEN 29 ELSE 28)
    ELSE IF CalMonth(m) \in {4, 6, 9, 11} THEN 30 ELSE 31

DateLE(a, b) == a[1] < b[1] \/ (a[1] = b[1] /\ a[2] <= b[2])

\* pd.offsets.MonthEnd(0): roll a date forward to the end of its month
MonthEnd0(date) == <<date[1], DaysInMonth(date[1])>>

\* BTC_SERIES_START = "2014-01-01"
BTC_SERIES_START == <<3, 1>>

\* ts.timestamp(): the position of a date on the time axis.  The unit is the
\* calendar month (a day is 1/DaysInMonth of it) rather than the second, to
\* keep the spline's linear system within 32-bit integers.
Timestamp(date) == RAdd(Int2R(date[1]), Rat(date[2] - 1, DaysInMonth(date[1])))

----------------------------------------------------------------------------
(* Series: a sequence of [date, value] records, ascending by date.         *)

Obs(date, value) == [date |-> date, value |-> value]

EmptySeries == << >>

dropna(series) == SelectSeq(series, LAMBDA r : ~isna(r.value))

Dates(series) == {series[i].date : i \in 1..Len(series)}

\* the value a series holds at a date of its index
At(series, date) ==
    series[CHOOSE j \in 1..Len(series) : series[j].date = date].value

\* series.sort_index(): the rows in ascending date order (rows of equal date
\* keep their order)
sort_index(series) ==
    Let1(series, LAMBDA s :
        Let1(Tup([i \in 1..Len(s) |->
                     Cardinality({j \in 1..Len(s) :
                         \/ ~DateLE(s[i].date, s[j].date)
                         \/ (s[j].date = s[i].date /\ j <= i)})]),
             LAMBDA rank :
                 Tup([k \in 1..Len(s) |-> s[CHOOSE i \in 1..Len(s) : rank[i] = k]])))
----------------------------------------------------------------------------
(* Frequency alignment                                                     *)

\* scipy.interpolate.CubicSpline(x, y), default not-a-knot ends: the
\* tridiagonal system  lo[i] s[i-1] + di[i] s[i] + up[i] s[i+1] = b[i]  for the
\* first derivatives s at the n >= 3 knots (three knots: the parabola)
SplineSystem(x, dx, slope) ==
    LET n == Len(x)
        two == Int2R(2)
        dFirst == RSub(x[3], x[1])
        dLast == RSub(x[n], x[n - 2])
    IN  [lo |-> Tup([i \in 1..n |->
                 IF i = 1 THEN Int2R(0)
                 ELSE IF i = n THEN (IF n = 3 THEN Int2R(1) ELSE dLast)
                 ELSE dx[i]]),
         di |-> Tup([i \in 1..n |->
                 IF i = 1 THEN (IF n = 3 THEN Int2R(1) ELSE dx[2])
                 ELSE IF i = n THEN (IF n = 3 THEN Int2R(1) ELSE dx[n - 2])
                 ELSE RMul(two, RAdd(dx[i - 1], dx[i]))]),
         up |-> Tup([i \in 1..n |->
                 IF i = 1 THEN (IF n = 3 THEN Int2R(1) ELSE dFirst)
                 ELSE IF i = n THEN Int2R(0)
                 ELSE dx[i - 1]]),
         b |-> Tup([i \in 1..n |->
                 IF i = 1 THEN
                     (IF n = 3 THEN RMul(two, slope[1])
                      ELSE RDiv(RAdd(RMul(RMul(RAdd(dx[1], RMul(two, dFirst)), dx[2]), slope[1]),
                                     RMul(RMul(dx[1], dx[1]), slope[2])),
                                dFirst))
                 ELSE IF i = n THEN
                     (IF n = 3 THEN RMul(two, slope[2])
                      ELSE RDiv(RAdd(RMul(RMul(dx[n - 1], dx[n - 1]), slope[n - 2]),
                                     RMul(RMul(RAdd(RMul(two, dLast), dx[n - 1]), dx[n - 2]),
                                          slope[n - 1])),
                                dLast))
                 ELSE RMul(Int2R(3), RAdd(RMul(dx[i], slope[i - 1]),
                                          RMul(dx[i - 1], slope[i])))])]

\* forward elimination of the tridiagonal system: rows [c, r] with
\* s[i] + c[i] s[i+1] = r[i]
RECURSIVE SplineForward(_, _)
SplineForward(sys, acc) ==
    Let1(acc, LAMBDA a :
        IF Len(a) = Len(sys.b) THEN a
        ELSE IF Len(a) = 0
             THEN SplineForward(sys, <<[c |-> RDiv(sys.up[1], sys.di[1]),
                                        r |-> RDiv(sys.b[1], sys.di[1])]>>)
        ELSE Let1(<<Len(a) + 1,
                    RSub(sys.di[Len(a) + 1], RMul(sys.lo[Len(a) + 1], a[Len(a)].c))>>,
                  LAMBDA q :
                      SplineForward(sys, Append(a,
                          [c |-> RDiv(sys.up[q[1]], q[2]),
                           r |-> RDiv(RSub(sys.b[q[1]], RMul(sys.lo[q[1]], a[q[1] - 1].r)),
                                      q[2])]))))

\* back substitution: acc holds s[i+1..n]
RECURSIVE SplineBack(_, _)
SplineBack(fw, acc) ==
    Let1(acc, LAMBDA a :
        IF Len(a) = Len(fw) THEN a
        ELSE IF Len(a) = 0 THEN SplineBack(fw, <<fw[Len(fw)].r>>)
        ELSE SplineBack(fw, <<RSub(fw[Len(fw) - Len(a)].r,
                                    RMul(fw[Len(fw) - Len(a)].c, a[1]))>> \o a))

\* the first derivatives of the spline at its knots; x and y are tuples of
\* n >= 2 rationals, x strictly increasing (two knots: the straight line)
SplineSlopes(x, y) ==
    Let1(<<x, y>>, LAMBDA p :
        Let1(Tup([i \in 1..(Len(p[1]) - 1) |-> RSub(p[1][i + 1], p[1][i])]), LAMBDA dx :
            Let1(Tup([i \in 1..(Len(p[1]) - 1) |-> RDiv(RSub(p[2][i + 1], p[2][i]), dx[i])]),
                 LAMBDA slope :
                     IF Len(p[1]) = 2 THEN <<slope[1], slope[1]>>
                     ELSE Let1(SplineSystem(p[1], dx, slope), LAMBDA sys :
                              Let1(SplineForward(sys, << >>), LAMBDA fw :
                                  SplineBack(fw, << >>))))))

\* the spline's value at xq, x[1] <= xq <= x[n]: the cubic of the interval
\* [x[i], x[i+1]) that holds xq (the last interval holds x[n] too)
SplineEvalV(x, y, s, xq) ==
    LET n == Len(x)
        i == IF ~RLess(xq, x[n]) THEN n - 1
             ELSE CHOOSE k \in 1..(n - 1) : ~RLess(xq, x[k]) /\ RLess(xq, x[k + 1])
    IN  Let1(<<i, RSub(x[i + 1], x[i]), RSub(xq, x[i])>>, LAMBDA q :
            Let1(RDiv(RSub(y[q[1] + 1], y[q[1]]), q[2]), LAMBDA sl :
                Let1(RDiv(RSub(RAdd(s[q[1]], s[q[1] + 1]), RMul(Int2R(2), sl)), q[2]),
                     LAMBDA t :
                         \* c0 u^3 + c1 u^2 + c2 u + c3
                         RAdd(RMul(RAdd(RMul(RAdd(RMul(RDiv(t, q[2]), q[3]),
                                                  RSub(RDiv(RSub(sl, s[q[1]]), q[2]), t)),
                                             q[3]),
                                        s[q[1]]),
                                   q[3]),
                              y[q[1]]))))

SplineEval(x, y, s, xq) ==
    Let1(<<x, y, s, xq>>, LAMBDA p : SplineEvalV(p[1], p[2], p[3], p[4]))

\* variant of MonthStarts that leaves out the month of `end`
MonthStartsLeft(start, end) ==
    Let1(<<IF start[2] = 1 THEN start[1] ELSE start[1] + 1, end[1] - 1>>, LAMBDA fl :
        Tup([k \in 1..(IF fl[2] >= fl[1] THEN fl[2] - fl[1] + 1 ELSE 0) |->
                <<fl[1] + k - 1, 1>>]))

\* pd.date_range(start, end, freq="MS"): the first-of-month dates in [start, end]
MonthStarts(start, end) ==
    Let1(<<IF start[2] = 1 THEN start[1] ELSE start[1] + 1, end[1]>>, LAMBDA fl :
        Tup([k \in 1..(IF fl[2] >= fl[1] THEN fl[2] - fl[1] + 1 ELSE 0) |->
                <<fl[1] + k - 1, 1>>]))

\* CubicSpline raises ValueError for fewer than two points
SplineFails(gdp_quarterly) == Len(dropna(gdp_quarterly)) < 2

interpolate_gdp_to_monthly(gdp_quarterly) ==
    Let1(dropna(gdp_quarterly), LAMBDA gdp_clean :
        Let1(<<Tup([i \in 1..Len(gdp_clean) |-> Timestamp(gdp_clean[i].date)]),
               Tup([i \in 1..Len(gdp_clean) |-> gdp_clean[i].value]),
               MonthStarts(gdp_clean[1].date, gdp_clean[Len(gdp_clean)].date)>>,
             LAMBDA a :
                 \* a = <<numeric_timestamps, gdp_values, monthly_index>>
                 Let1(SplineSlopes(a[1], a[2]), LAMBDA spline :
                     Tup([k \in 1..Len(a[3]) |->
                             Obs(a[3][k],
                                 SplineEval(a[1], a[2], spline, Timestamp(a[3][k])))]))))

\* variant of resample_daily_to_monthly_end that takes the last row of each
\* month whether or not its value is missing
resample_last_row(daily_series) ==
    Let1(daily_series, LAMBDA ds :
        IF Len(ds) = 0 THEN EmptySeries
        ELSE LET first == ds[1].date[1]
                 last == ds[Len(ds)].date[1]
                 rows(m) == {i \in 1..Len(ds) : ds[i].date[1] = m}
                 pick(m) == CHOOSE i \in rows(m) : \A j \in rows(m) : j <= i
             IN  Tup([k \in 1..(last - first + 1) |->
                     Obs(<<first + k - 1, DaysInMonth(first + k - 1)>>,
                         IF rows(first + k - 1) = {} THEN NaN
                         ELSE ds[pick(first + k - 1)].value)]))

\* series.resample("ME").last(): one entry per calendar month from the month
\* of the first observation to the month of the last, dated at month end,
\* holding the last non-missing value observed in the month (NaN if none)
resample_daily_to_monthly_end(daily_series) ==
    Let1(daily_series, LAMBDA ds :
        IF Len(ds) = 0 THEN EmptySeries
        ELSE LET first == ds[1].date[1]
                 last == ds[Len(ds)].date[1]
                 valid(m) == {i \in 1..Len(ds) : ds[i].date[1] = m /\ ~isna(ds[i].value)}
                 pick(m) == CHOOSE i \in valid(m) : \A j \in valid(m) : j <= i
             IN  Tup([k \in 1..(last - first + 1) |->
                     Obs(<<first + k - 1, DaysInMonth(first + k - 1)>>,
                         IF valid(first + k - 1) = {} THEN NaN
                         ELSE ds[pick(first + k - 1)].value)]))
----------------------------------------------------------------------------
(* Tables (DataFrames): [index, names, data], data[k] the column names[k], *)
(* every column as long as the index.                                      *)

Frame(index, names, data) == [index |-> index, names |-> names, data |-> data]

Columns(df) == {df.names[k] : k \in 1..Len(df.names)}

NRows(df) == Len(df.index)

HasColumn(df, name) == name \in Columns(df)

\* df[name]
Col(df, name) == df.data[CHOOSE k \in 1..Len(df.names) : df.names[k] = name]

\* the positions of a sequence that satisfy Keep, ascending
RECURSIVE Positions(_, _, _)
Positions(n, Keep(_), acc) ==
    IF n = 0 THEN acc
    ELSE Positions(n - 1, Keep, IF Keep(n) THEN <<n>> \o acc ELSE acc)

\* the rows of df at the given positions
TakeRows(df, pos) ==
    Let1(pos, LAMBDA p :
        Frame(Tup([i \in 1..Len(p) |-> df.index[p[i]]]),
              df.names,
              Tup([k \in 1..Len(df.names) |->
                      Tup([i \in 1..Len(p) |-> df.data[k][p[i]]])])))

RowHasNaN(df, i) == \E k \in 1..Len(df.names) : isna(df.data[k][i])

\* variant of df_dropna that drops a row only when all its values are missing
df_dropna_all(df) ==
    Let1(df, LAMBDA d :
        TakeRows(d, Positions(NRows(d),
                              LAMBDA i : \E k \in 1..Len(d.names) : ~isna(d.data[k][i]),
                              << >>)))

\* df.dropna(): the rows without a missing value
df_dropna(df) ==
    Let1(df, LAMBDA d : TakeRows(d, Positions(NRows(d), LAMBDA i : ~RowHasNaN(d, i), << >>)))

\* variant of loc_from that keeps every row (no clip to the start date)
loc_all(df, start) == df

\* df.loc[start:] on an ascending date index
loc_from(df, start) ==
    Let1(df, LAMBDA d :
        TakeRows(d, Positions(NRows(d), LAMBDA i : DateLE(start, d.index[i]), << >>)))

\* df[name] = values (a new column is appended, an existing one replaced)
SetCol(df, name, values) ==
    IF HasColumn(df, name)
    THEN Frame(df.index, df.names,
               Tup([k \in 1..Len(df.names) |->
                       IF df.names[k] = name THEN values ELSE df.data[k]]))
    ELSE Frame(df.index, Append(df.names, name), Append(df.data, values))

\* df.drop(columns=cols), every one of cols being a column of df
drop_columns(df, cols) ==
    Let1(Positions(Len(df.names), LAMBDA k : df.names[k] \notin cols, << >>), LAMBDA p :
        Frame(df.index,
              Tup([i \in 1..Len(p) |-> df.names[p[i]]]),
              Tup([i \in 1..Len(p) |-> df.data[p[i]]])))

\* pd.concat(series, axis=1, join="inner"): one column per series, on the
\* dates that every series' index holds
concat_inner(names, series) ==
    Let1(Positions(Len(series[1]),
                   LAMBDA i : \A k \in 1..Len(series) : series[1][i].date \in Dates(series[k]),
                   << >>),
         LAMBDA p :
             Frame(Tup([i \in 1..Len(p) |-> series[1][p[i]].date]),
                   names,
                   Tup([k \in 1..Len(series) |->
                           Tup([i \in 1..Len(p) |-> At(series[k], series[1][p[i]].date)])])))

\* gdp_monthly.index = gdp_monthly.index + pd.offsets.MonthEnd(0)
ShiftToMonthEnd(series) ==
    Tup([i \in 1..Len(series) |-> Obs(MonthEnd0(series[i].date), series[i].value)])

AlignedColumns ==
    <<"m2", "cpi", "gdp_monthly", "fed_funds_rate", "tips_real_yield_10y",
      "btc_price", "sp500_price", "gold_price">>

\* the names of the series resampled to month end, in the order of the source
ResampledNames == <<"m2", "cpi", "fed_funds", "tips_real_yield", "btc", "sp500", "gold">>

\* m2_monthly ... gold_monthly: name -> resampled series
resample_all(m2, cpi, fed_funds, tips_real_yield, btc, sp500, gold) ==
    [name \in {"m2", "cpi", "fed_funds", "tips_real_yield", "btc", "sp500", "gold"} |->
        resample_daily_to_monthly_end(
            CASE name = "m2" -> m2
              [] name = "cpi" -> cpi
              [] name = "fed_funds" -> fed_funds
              [] name = "tips_real_yield" -> tips_real_yield
              [] name = "btc" -> btc
              [] name = "sp500" -> sp500
              [] name = "gold" -> gold)]

\* the eight monthly series in the order of the join; gdp_monthly already
\* re-dated to month end
MonthlySeries(monthly, gdp_monthly) ==
    <<monthly["m2"], monthly["cpi"], gdp_monthly, monthly["fed_funds"],
      monthly["tips_real_yield"], monthly["btc"], monthly["sp500"], monthly["gold"]>>

\* pd.concat(..., axis=1, join="inner"), .loc[BTC_SERIES_START:], .dropna()
join_clip_dropna(monthly, gdp_monthly) ==
    Let1(concat_inner(AlignedColumns, MonthlySeries(monthly, gdp_monthly)),
         LAMBDA combined_df : df_dropna(loc_from(combined_df, BTC_SERIES_START)))

\* align_all_series_to_monthly as one call: [err, df]
align_all_series_to_monthly(m2, cpi, gdp, fed_funds, tips_real_yield, btc, sp500, gold) ==
    IF SplineFails(gdp) THEN [err |-> "ValueError", df |-> << >>]
    ELSE [err |-> "none",
          df |-> <<join_clip_dropna(
                      resample_all(m2, cpi, fed_funds, tips_real_yield, btc, sp500, gold),
                      ShiftToMonthEnd(interpolate_gdp_to_monthly(gdp)))>>]
----------------------------------------------------------------------------
(* Feature engineering.  A stage reads columns with df[name], which raises *)
(* KeyError when the column is absent; Missing(df, names) are the columns  *)
(* a stage would fail on.                                                  *)

DEBASEMENT_INDICATOR_COLUMNS ==
    <<"m2_yoy_pct", "cpi_yoy_pct", "real_m2_growth", "m2_to_gdp">>

\* f"z_{column_name}"
ZName(column_name) ==
    CASE column_name = "m2_yoy_pct" -> "z_m2_yoy_pct"
      [] column_name = "cpi_yoy_pct" -> "z_cpi_yoy_pct"
      [] column_name = "real_m2_growth" -> "z_real_m2_growth"
      [] column_name = "m2_to_gdp" -> "z_m2_to_gdp"

Missing(df, names) == names \ Columns(df)

\* values.pct_change(periods) * 100: the change against the row `periods`
\* rows earlier, in percent
pct_change_100(values, periods) ==
    Let1(values, LAMBDA v :
        Tup([i \in 1..Len(v) |->
                IF i <= periods THEN NaN
                ELSE RMul(RSub(RDiv(v[i], v[i - periods]), Int2R(1)), Int2R(100))]))

\* the number of rows pct_change looks back for a year-over-year change
YoYPeriods == 12

\* elementwise a - b and a / b of two columns
ColSub(a, b) == Let1(<<a, b>>, LAMBDA p : Tup([i \in 1..Len(p[1]) |-> RSub(p[1][i], p[2][i])]))

ColDiv(a, b) == Let1(<<a, b>>, LAMBDA p : Tup([i \in 1..Len(p[1]) |-> RDiv(p[1][i], p[2][i])]))

\* np.log(r) in closed form <<n, d, rn, rd>> = n/d + ln(rn/rd):
\* log of a negative number or NaN is NaN, log(0) is -inf, log(inf) is inf
LogOf(r) ==
    Let1(r, LAMBDA v :
        IF isna(v) THEN <<0, 0, 1, 1>>
        ELSE IF IsInf(v) THEN (IF v[1] > 0 THEN <<1, 0, 1, 1>> ELSE <<0, 0, 1, 1>>)
        ELSE IF v[1] < 0 THEN <<0, 0, 1, 1>>
        ELSE IF v[1] = 0 THEN <<-1, 0, 1, 1>>
        ELSE <<0, 1, v[1], v[2]>>)

\* np.log(price / price.shift(1))
log_return(price) ==
    Let1(price, LAMBDA p :
        Tup([i \in 1..Len(p) |->
                IF i = 1 THEN LogOf(NaN) ELSE LogOf(RDiv(p[i], p[i - 1]))]))

\* (fed_funds_rate - cpi_yoy_pct) / 12 / 100
cash_real_return(fed_funds_rate, cpi_yoy_pct) ==
    Let1(<<fed_funds_rate, cpi_yoy_pct>>, LAMBDA p :
        Tup([i \in 1..Len(p[1]) |->
                RDiv(RDiv(RSub(p[1][i], p[2][i]), Int2R(12)), Int2R(100))]))

\* a return n/d + ln(r) less a rational c
LogSub(a, c) ==
    Let1(<<a, RSub(<<a[1], a[2]>>, c)>>, LAMBDA p :
        IF isna(p[2]) THEN <<0, 0, 1, 1>>
        ELSE IF IsInf(p[2]) THEN <<p[2][1], 0, 1, 1>>
        ELSE <<p[2][1], p[2][2], p[1][3], p[1][4]>>)

SpreadCol(ret, cash) ==
    Let1(<<ret, cash>>, LAMBDA p : Tup([i \in 1..Len(p[1]) |-> LogSub(p[1][i], p[2][i])]))

\* the sum of the values of a tuple of rationals
RECURSIVE RSum(_)
RSum(values) ==
    IF Len(values) = 0 THEN Int2R(0)
    ELSE Let1(RSum(Tail(values)), LAMBDA rest : RAdd(Head(values), rest))

\* Series.mean(): the mean of the non-missing values, NaN when there is none
column_mean(values) ==
    Let1(SelectSeq(values, LAMBDA v : ~isna(v)), LAMBDA present :
        RDiv(RSum(present), Int2R(Len(present))))

\* the square of Series.std(): the variance of the non-missing values with
\* denominator count - ddof (NaN when that is not positive), here ddof = 1
column_var_ddof(values, ddof) ==
    Let1(SelectSeq(values, LAMBDA v : ~isna(v)), LAMBDA present :
        Let1(RDiv(RSum(present), Int2R(Len(present))), LAMBDA mean :
            IF Len(present) - ddof <= 0 THEN NaN
            ELSE RDiv(RSum(Tup([i \in 1..Len(present) |->
                                   RMul(RSub(present[i], mean), RSub(present[i], mean))])),
                      Int2R(Len(present) - ddof))))

\* variant of column_var: the population variance (ddof = 0)
column_var_population(values) == column_var_ddof(values, 0)

column_var(values) == column_var_ddof(values, 1)

\* (x - mean) / std in closed form <<n, d, vn, vd>> = (n/d) / sqrt(vn/vd)
ZScore(x, mean, var) ==
    Let1(<<RSub(x, mean), var>>, LAMBDA p :
        IF isna(p[1]) \/ isna(p[2]) THEN <<0, 0, 1, 1>>
        ELSE IF IsInf(p[1]) THEN (IF IsInf(p[2]) THEN <<0, 0, 1, 1>> ELSE <<p[1][1], 0, 1, 1>>)
        ELSE IF IsInf(p[2]) THEN <<0, 1, 1, 1>>
        ELSE IF p[2][1] = 0
             THEN (IF p[1][1] = 0 THEN <<0, 0, 1, 1>> ELSE <<Sign(p[1][1]), 0, 1, 1>>)
        ELSE <<p[1][1], p[1][2], p[2][1], p[2][2]>>)

standardized_column(values) ==
    Let1(<<values, column_mean(values), column_var(values)>>, LAMBDA p :
        Tup([i \in 1..Len(p[1]) |-> ZScore(p[1][i], p[2], p[3])]))

\* df[columns].mean(axis=1) of one row: the mean of the row's non-missing
\* values, in closed form <<1, count, terms>> = (sum of terms) / count, and
\* NaN = <<0, 0, <<>>>> when every value is missing
RowMean(values) ==
    Let1(SelectSeq(values, LAMBDA v : ~isna(v)), LAMBDA present :
        IF Len(present) = 0 THEN <<0, 0, << >> >> ELSE <<1, Len(present), present>>)

\* variant of row_mean_of that averages all but the last of the columns
row_mean_of_leading(df, columns) ==
    Let1(df, LAMBDA d :
        Tup([i \in 1..NRows(d) |->
                RowMean(Tup([k \in 1..(Len(columns) - 1) |-> Col(d, columns[k])[i]]))]))

row_mean_of(df, columns) ==
    Let1(df, LAMBDA d :
        Tup([i \in 1..NRows(d) |->
                RowMean(Tup([k \in 1..Len(columns) |-> Col(d, columns[k])[i]]))]))

standardized_columns ==
    Tup([k \in 1..Len(DEBASEMENT_INDICATOR_COLUMNS) |-> ZName(DEBASEMENT_INDICATOR_COLUMNS[k])])

\* the value a stage assigns to df[name], computed from the columns of df
ColumnValue(df, name) ==
    CASE name = "m2_yoy_pct" -> pct_change_100(Col(df, "m2"), YoYPeriods)
      [] name = "cpi_yoy_pct" -> pct_change_100(Col(df, "cpi"), YoYPeriods)
      [] name = "real_m2_growth" -> ColSub(Col(df, "m2_yoy_pct"), Col(df, "cpi_yoy_pct"))
      [] name = "m2_to_gdp" -> ColDiv(Col(df, "m2"), Col(df, "gdp_monthly"))
      [] name = "btc_return_monthly" -> log_return(Col(df, "btc_price"))
      [] name = "sp500_return_monthly" -> log_return(Col(df, "sp500_price"))
      [] name = "gold_return_monthly" -> log_return(Col(df, "gold_price"))
      [] name = "cash_real_return_monthly" ->
             cash_real_return(Col(df, "fed_funds_rate"), Col(df, "cpi_yoy_pct"))
      [] name = "btc_vs_cash_real_spread" ->
             SpreadCol(Col(df, "btc_return_monthly"), Col(df, "cash_real_return_monthly"))
      [] name = "gold_vs_cash_real_spread" ->
             SpreadCol(Col(df, "gold_return_monthly"), Col(df, "cash_real_return_monthly"))
      [] name = "sp500_vs_cash_real_spread" ->
             SpreadCol(Col(df, "sp500_return_monthly"), Col(df, "cash_real_return_monthly"))
      [] name = "z_m2_yoy_pct" -> standardized_column(Col(df, "m2_yoy_pct"))
      [] name = "z_cpi_yoy_pct" -> standardized_column(Col(df, "cpi_yoy_pct"))
      [] name = "z_real_m2_growth" -> standardized_column(Col(df, "real_m2_growth"))
      [] name = "z_m2_to_gdp" -> standardized_column(Col(df, "m2_to_gdp"))
      [] name = "zscore_composite_debasement_score" -> row_mean_of(df, standardized_columns)

\* the columns the right-hand side of the assignment to df[name] reads
ColumnReads(name) ==
    CASE name = "m2_yoy_pct" -> {"m2"}
      [] name = "cpi_yoy_pct" -> {"cpi"}
      [] name = "real_m2_growth" -> {"m2_yoy_pct", "cpi_yoy_pct"}
      [] name = "m2_to_gdp" -> {"m2", "gdp_monthly"}
      [] name = "btc_return_monthly" -> {"btc_price"}
      [] name = "sp500_return_monthly" -> {"sp500_price"}
      [] name = "gold_return_monthly" -> {"gold_price"}
      [] name = "cash_real_return_monthly" -> {"fed_funds_rate", "cpi_yoy_pct"}
      [] name = "btc_vs_cash_real_spread" -> {"btc_return_monthly", "cash_real_return_monthly"}
      [] name = "gold_vs_cash_real_spread" -> {"gold_return_monthly", "cash_real_return_monthly"}
      [] name = "sp500_vs_cash_real_spread" ->
             {"sp500_return_monthly", "cash_real_return_monthly"}
      [] name = "z_m2_yoy_pct" -> {"m2_yoy_pct"}
      [] name = "z_cpi_yoy_pct" -> {"cpi_yoy_pct"}
      [] name = "z_real_m2_growth" -> {"real_m2_growth"}
      [] name = "z_m2_to_gdp" -> {"m2_to_gdp"}
      [] name = "zscore_composite_debasement_score" ->
             {standardized_columns[j] : j \in 1..Len(standardized_columns)}

\* a stage function: the columns it assigns to its argument, in order, and
\* the columns it then drops (df.drop returns a new table)
StageNames ==
    <<"compute_debasement_indicators", "compute_asset_returns", "compute_cash_real_return",
      "compute_spread_features", "standardize_debasement_indicators",
      "compute_zscore_composite_debasement_score">>

StageAssigns(stage) ==
    CASE stage = "compute_debasement_indicators" ->
             <<"m2_yoy_pct", "cpi_yoy_pct", "real_m2_growth", "m2_to_gdp">>
      [] stage = "compute_asset_returns" ->
             <<"btc_return_monthly", "sp500_return_monthly", "gold_return_monthly">>
      [] stage = "compute_cash_real_return" -> <<"cash_real_return_monthly">>
      [] stage = "compute_spread_features" ->
             <<"btc_vs_cash_real_spread", "gold_vs_cash_real_spread",
               "sp500_vs_cash_real_spread">>
      [] stage = "standardize_debasement_indicators" -> standardized_columns
      [] stage = "compute_zscore_composite_debasement_score" ->
             <<"zscore_composite_debasement_score">>

\* variant of StageDrops: no stage drops a column
StageDropsNone(stage) == {}

StageDrops(stage) ==
    CASE stage = "compute_debasement_indicators" -> {"m2", "cpi", "gdp_monthly"}
      [] stage = "compute_asset_returns" -> {"btc_price", "sp500_price", "gold_price"}
      [] OTHER -> {}

\* variant of RunAssigns in which reading an absent column yields missing
\* values instead of raising
RECURSIVE RunAssignsFill(_, _, _)
RunAssignsFill(df, names, i) ==
    Let1(df, LAMBDA d :
        IF i > Len(names) THEN [err |-> "none", df |-> d]
        ELSE IF Missing(d, ColumnReads(names[i])) # {}
        THEN RunAssignsFill(SetCol(d, names[i], Tup([r \in 1..NRows(d) |-> NaN])),
                            names, i + 1)
        ELSE RunAssignsFill(SetCol(d, names[i], ColumnValue(d, names[i])), names, i + 1))

\* the assignments of a stage from the i-th on, made in place on df:
\* [err, df], df as the assignments left it; KeyError at the first
\* assignment that reads an absent column
RECURSIVE RunAssigns(_, _, _)
RunAssigns(df, names, i) ==
    Let1(df, LAMBDA d :
        IF i > Len(names) THEN [err |-> "none", df |-> d]
        ELSE IF Missing(d, ColumnReads(names[i])) # {} THEN [err |-> "KeyError", df |-> d]
        ELSE RunAssigns(SetCol(d, names[i], ColumnValue(d, names[i])), names, i + 1))

\* a call of a stage function on the table df:
\*   err   "none", or the exception the call raises
\*   arg   the caller's table after the call (stages assign in place)
\*   ret   the table returned, when err = "none"
\*   fresh whether ret is a new table rather than the argument itself
RunStage(stage, df) ==
    Let1(RunAssigns(df, StageAssigns(stage), 1), LAMBDA r :
        IF r.err # "none"
        THEN [err |-> r.err, arg |-> r.df, ret |-> r.df, fresh |-> FALSE]
        ELSE IF StageDrops(stage) = {}
        THEN [err |-> "none", arg |-> r.df, ret |-> r.df, fresh |-> FALSE]
        ELSE IF Missing(r.df, StageDrops(stage)) # {}
        THEN [err |-> "KeyError", arg |-> r.df, ret |-> r.df, fresh |-> FALSE]
        ELSE [err |-> "none", arg |-> r.df, ret |-> drop_columns(r.df, StageDrops(stage)),
              fresh |-> TRUE])

compute_debasement_indicators(df) == RunStage("compute_debasement_indicators", df)

compute_asset_returns(df) == RunStage("compute_asset_returns", df)

compute_cash_real_return(df) == RunStage("compute_cash_real_return", df)

compute_spread_features(df) == RunStage("compute_spread_features", df)

standardize_debasement_indicators(df) == RunStage("standardize_debasement_indicators", df)

compute_zscore_composite_debasement_score(df) ==
    RunStage("compute_zscore_composite_debasement_score", df)

\* variant of StageCall that runs the spreads stage before the cash real
\* return stage
StageCallSpreadsFirst(k, df) ==
    CASE k = 1 -> compute_debasement_indicators(df)
      [] k = 2 -> compute_asset_returns(df)
      [] k = 3 -> compute_spread_features(df)
      [] k = 4 -> compute_cash_real_return(df)
      [] k = 5 -> standardize_debasement_indicators(df)
      [] k = 6 -> compute_zscore_composite_debasement_score(df)

StageCall(k, df) ==
    CASE k = 1 -> compute_debasement_indicators(df)
      [] k = 2 -> compute_asset_returns(df)
      [] k = 3 -> compute_cash_real_return(df)
      [] k = 4 -> compute_spread_features(df)
      [] k = 5 -> standardize_debasement_indicators(df)
      [] k = 6 -> compute_zscore_composite_debasement_score(df)
----------------------------------------------------------------------------
(* Raw input files.  The collector writes one CSV per series: m2 and cpi   *)
(* monthly and gdp quarterly, dated the first of the period; the other     *)
(* five on trading days, here the 10th and the 20th of each month.         *)

SeriesNames ==
    <<"m2", "cpi", "gdp", "fed_funds", "tips_real_yield", "btc", "sp500", "gold">>

Names == {SeriesNames[k] : k \in 1..Len(SeriesNames)}

\* the last month of the input horizon (months 0..MaxMonth)
MaxMonth == 18

\* the number of value patterns the inputs are drawn from
NumPatterns == 2

\* the level of a series in month m under value pattern v
Level(name, m, v) ==
    CASE name = "m2" -> IF m <= 14 THEN 1 + (v - 1) * (m % 2) ELSE 1 + ((m * v) % 4)
      [] name = "cpi" -> IF m <= 14 THEN 2 ELSE 2 + (m % 2) * v
      [] name = "gdp" -> v
      [] name = "fed_funds" -> m % 3
      [] name = "tips_real_yield" -> 1
      [] name = "btc" -> 1 + ((m + v) % 2)
      [] name = "sp500" -> 3
      [] name = "gold" -> m + 1

Shapes == {"full", "absent", "short", "reversed", "late", "early", "tail", "hole", "nan_last"}

\* the months a file of the given shape covers
ShapeMonths(shape) ==
    CASE shape = "late" -> 5..MaxMonth
      [] shape = "early" -> 0..8
      [] shape = "tail" -> 12..MaxMonth
      [] shape = "short" -> 0..1
      [] shape = "absent" -> {}
      [] OTHER -> 0..MaxMonth

\* the observations of one month in a file; value[m] is the month's level
MonthRows(name, shape, m, value) ==
    IF name \in {"m2", "cpi"}
    THEN <<Obs(<<m, 1>>, IF shape = "hole" /\ m = 10 THEN NaN ELSE value[m])>>
    ELSE IF name = "gdp"
    THEN (IF m % 3 # 0 THEN << >>
          ELSE <<Obs(<<m, 1>>, IF shape = "hole" /\ m = 9 THEN NaN ELSE value[m])>>)
    ELSE <<Obs(<<m, 10>>, IF shape = "hole" /\ m = 10 THEN NaN
                          ELSE RAdd(value[m], Int2R(5))),
           Obs(<<m, 20>>, IF shape \in {"hole", "nan_last"} /\ m = 10 THEN NaN
                          ELSE value[m])>>

RECURSIVE FileRows(_, _, _, _)
FileRows(name, shape, m, value) ==
    IF m > MaxMonth THEN << >>
    ELSE (IF m \in ShapeMonths(shape) THEN MonthRows(name, shape, m, value) ELSE << >>)
         \o FileRows(name, shape, m + 1, value)

Reverse(s) == [i \in 1..Len(s) |-> s[Len(s) + 1 - i]]

\* the levels of a series over the horizon under value pattern v
Levels(name, v) == [m \in 0..MaxMonth |-> Int2R(Level(name, m, v))]

\* a raw CSV file: whether it exists, and its rows in file order
RawFile(name, shape, v) ==
    [exists |-> shape # "absent",
     rows |-> IF shape = "reversed"
              THEN Tup(Reverse(FileRows(name, shape, 0, Levels(name, v))))
              ELSE FileRows(name, shape, 0, Levels(name, v))]

\* the series whose file may deviate from "full"
DevNames == {"m2", "gdp", "fed_funds", "btc"}

\* the files of a run: every series "full" but the series a and b
InputFiles(a, sa, b, sb, v) ==
    [name \in Names |->
        RawFile(name, IF name = a THEN sa ELSE IF name = b THEN sb ELSE "full", v)]
----------------------------------------------------------------------------
(* The pipeline as a state machine                                         *)

VARIABLES
    pc,          \* position of the run: start, loaded, interpolated, resampled,
                 \* aligned, build, built, saved, failed (stage_*: one stage call)
    err,         \* "none", or the exception that ended the run
    raw_files,   \* raw_data/: name -> [exists, rows]
    series,      \* the eight loaded series: name -> series
    monthly,     \* align's m2_monthly ... gold_monthly: name -> series
    gdp_monthly, \* align's gdp_monthly
    frames,      \* the tables allocated so far; a table is referred to by its position
    aligned_df,  \* main's aligned_df (0: unbound)
    analysis_df, \* build_analysis_dataframe's analysis_df (0: unbound)
    stage,       \* the feature stage build_analysis_dataframe runs next (7: the final dropna)
    output,      \* processed_data/analysis_df.csv: [writes, content]
    alt_series,  \* the loaded series of a second run, for comparing two runs
    alt_result   \* the second run's align_all_series_to_monthly: [err, df]

vars == <<pc, err, raw_files, series, monthly, gdp_monthly, frames, aligned_df,
          analysis_df, stage, output, alt_series, alt_result>>

NoSeries == [name \in Names |-> EmptySeries]

NoFiles == [name \in Names |-> [exists |-> FALSE, rows |-> << >>]]

NoOutput == [writes |-> 0, content |-> << >>]

NoResult == [err |-> "unset", df |-> << >>]

Init ==
    /\ pc = "start"
    /\ err = "none"
    /\ \E a \in DevNames, b \in DevNames, sa \in Shapes, sb \in Shapes, v \in 1..NumPatterns :
           raw_files = InputFiles(a, sa, b, sb, v)
    /\ series = NoSeries
    /\ monthly = << >>
    /\ gdp_monthly = << >>
    /\ frames = << >>
    /\ aligned_df = 0
    /\ analysis_df = 0
    /\ stage = 0
    /\ output = NoOutput
    /\ alt_series = NoSeries
    /\ alt_result = NoResult

\* load_raw_series: pd.read_csv raises FileNotFoundError for a missing file
load_raw_series(file) == sort_index(file.rows)

\* load_all_raw_series
LoadAll ==
    /\ pc = "start"
    /\ IF \E name \in Names : ~raw_files[name].exists
       THEN /\ pc' = "failed"
            /\ err' = "FileNotFoundError"
            /\ series' = series
       ELSE /\ pc' = "loaded"
            /\ err' = err
            /\ series' = [name \in Names |-> load_raw_series(raw_files[name])]
    /\ UNCHANGED <<raw_files, monthly, gdp_monthly, frames, aligned_df, analysis_df,
                   stage, output, alt_series, alt_result>>

\* align_all_series_to_monthly: gdp_monthly = interpolate_gdp_to_monthly(gdp)
Interpolate ==
    /\ pc = "loaded"
    /\ IF SplineFails(series["gdp"])
       THEN /\ pc' = "failed"
            /\ err' = "ValueError"
            /\ gdp_monthly' = gdp_monthly
       ELSE /\ pc' = "interpolated"
            /\ err' = err
            /\ gdp_monthly' = interpolate_gdp_to_monthly(series["gdp"])
    /\ UNCHANGED <<raw_files, series, monthly, frames, aligned_df, analysis_df,
                   stage, output, alt_series, alt_result>>

\* align_all_series_to_monthly: the five resample_daily_to_monthly_end calls
\* and the two resample("ME").last() of m2 and cpi
Resample ==
    /\ pc = "interpolated"
    /\ pc' = "resampled"
    /\ monthly' = resample_all(series["m2"], series["cpi"], series["fed_funds"],
                      series["tips_real_yield"], series["btc"], series["sp500"],
                      series["gold"])
    /\ UNCHANGED <<err, raw_files, series, gdp_monthly, frames, aligned_df, analysis_df,
                   stage, output, alt_series, alt_result>>

\* align_all_series_to_monthly: the month-end shift of gdp_monthly, the
\* inner join, the clip to BTC_SERIES_START and the dropna; main binds the
\* result to aligned_df
Join ==
    /\ pc = "resampled"
    /\ pc' = "aligned"
    /\ \E shifted \in {ShiftToMonthEnd(gdp_monthly)} :
           /\ gdp_monthly' = shifted
           /\ frames' = Append(frames, join_clip_dropna(monthly, shifted))
    /\ aligned_df' = Len(frames) + 1
    /\ UNCHANGED <<err, raw_files, series, monthly, analysis_df, stage, output,
                   alt_series, alt_result>>

\* variant of BuildCopy that binds analysis_df to the aligned table itself
BuildNoCopy ==
    /\ pc = "aligned"
    /\ pc' = "build"
    /\ analysis_df' = aligned_df
    /\ stage' = 1
    /\ UNCHANGED <<err, raw_files, series, monthly, gdp_monthly, frames, aligned_df, output,
                   alt_series, alt_result>>

\* analysis_df = aligned_df.copy()
BuildCopy ==
    /\ pc = "aligned"
    /\ pc' = "build"
    /\ frames' = Append(frames, frames[aligned_df])
    /\ analysis_df' = Len(frames) + 1
    /\ stage' = 1
    /\ UNCHANGED <<err, raw_files, series, monthly, gdp_monthly, aligned_df, output,
                   alt_series, alt_result>>

\* analysis_df = <stage function>(analysis_df), stages 1 to 6
BuildStage ==
    /\ pc = "build"
    /\ stage \in 1..Len(StageNames)
    /\ \E r \in {StageCall(stage, frames[analysis_df])} :
           IF r.err # "none"
           THEN /\ pc' = "failed"
                /\ err' = r.err
                /\ frames' = [frames EXCEPT ![analysis_df] = r.arg]
                /\ UNCHANGED <<analysis_df, stage>>
           ELSE /\ pc' = pc
                /\ err' = err
                /\ stage' = stage + 1
                /\ IF r.fresh
                   THEN /\ frames' = Append([frames EXCEPT ![analysis_df] = r.arg], r.ret)
                        /\ analysis_df' = Len(frames) + 1
                   ELSE /\ frames' = [frames EXCEPT ![analysis_df] = r.ret]
                        /\ analysis_df' = analysis_df
    /\ UNCHANGED <<raw_files, series, monthly, gdp_monthly, aligned_df, output,
                   alt_series, alt_result>>

\* analysis_df = analysis_df.dropna(); return analysis_df
BuildDropna ==
    /\ pc = "build"
    /\ stage = Len(StageNames) + 1
    /\ pc' = "built"
    /\ frames' = Append(frames, df_dropna(frames[analysis_df]))
    /\ analysis_df' = Len(frames) + 1
    /\ stage' = 0
    /\ UNCHANGED <<err, raw_files, series, monthly, gdp_monthly, aligned_df, output,
                   alt_series, alt_result>>

\* variant of Save that also writes the table at hand when the run has failed
SaveOnExit ==
    /\ pc \in {"built", "failed"}
    /\ pc' = "saved"
    /\ output' = [writes |-> output.writes + 1,
                  content |-> IF analysis_df = 0 THEN << >> ELSE <<frames[analysis_df]>>]
    /\ UNCHANGED <<err, raw_files, series, monthly, gdp_monthly, frames, aligned_df,
                   analysis_df, stage, alt_series, alt_result>>

\* save_analysis_dataframe(analysis_df)
Save ==
    /\ pc = "built"
    /\ pc' = "saved"
    /\ output' = [writes |-> output.writes + 1, content |-> <<frames[analysis_df]>>]
    /\ UNCHANGED <<err, raw_files, series, monthly, gdp_monthly, frames, aligned_df,
                   analysis_df, stage, alt_series, alt_result>>

Next ==
    LoadAll \/ Interpolate \/ Resample \/ Join \/ BuildCopy \/ BuildStage
        \/ BuildDropna \/ Save

Spec == Init /\ [][Next]_vars
----------------------------------------------------------------------------
(* Two runs of align_all_series_to_monthly on inputs that differ after a   *)
(* month (specification SpecAlign).  The quarterly series takes values     *)
(* that vary, so that the spline bends.                                    *)

\* the number of value curves the quarterly series is drawn from
NumCurves == 2

\* the value of the quarterly series at month m under curve c
GdpCurve(c, m) == 10 + (((m \div 3) * (m \div 3) * c) % 5)

GdpLevels(c) == [m \in 0..MaxMonth |-> Int2R(GdpCurve(c, m))]

GdpShapes == {"full", "hole", "late", "early", "short"}

\* the files of a run of the alignment: the quarterly file of shape sg on
\* curve c, the other files "full"
AlignFiles(c, sg) ==
    [name \in Names |->
        IF name = "gdp"
        THEN [exists |-> TRUE, rows |-> FileRows("gdp", sg, 0, GdpLevels(c))]
        ELSE RawFile(name, "full", 1)]

\* the months after which the second run's inputs may differ
CutMonths == {5, 10, 14}

AlterKinds == {"same", "raised", "removed"}

AlteredNames == {"gdp", "m2", "btc"}

\* a series with its observations dated after month t raised by 1 or removed
AlterAfter(s, t, kind) ==
    CASE kind = "same" -> s
      [] kind = "raised" ->
             Tup([i \in 1..Len(s) |->
                     IF s[i].date[1] > t
                     THEN Obs(s[i].date, RAdd(s[i].value, Int2R(1)))
                     ELSE s[i]])
      [] kind = "removed" -> SelectSeq(s, LAMBDA r : r.date[1] <= t)

InitAlign ==
    /\ pc = "loaded"
    /\ err = "none"
    /\ \E c \in 1..NumCurves, sg \in GdpShapes :
           /\ raw_files = AlignFiles(c, sg)
           /\ series = [name \in Names |-> load_raw_series(AlignFiles(c, sg)[name])]
    /\ \E name \in AlteredNames, t \in CutMonths, kind \in AlterKinds :
           alt_series = [n \in Names |->
                            IF n = name THEN AlterAfter(series[n], t, kind) ELSE series[n]]
    /\ monthly = << >>
    /\ gdp_monthly = << >>
    /\ frames = << >>
    /\ aligned_df = 0
    /\ analysis_df = 0
    /\ stage = 0
    /\ output = NoOutput
    /\ alt_result = NoResult

\* the second run: align_all_series_to_monthly on alt_series
AltAlign ==
    /\ alt_result = NoResult
    /\ alt_result' = align_all_series_to_monthly(alt_series["m2"], alt_series["cpi"],
                         alt_series["gdp"], alt_series["fed_funds"],
                         alt_series["tips_real_yield"], alt_series["btc"],
                         alt_series["sp500"], alt_series["gold"])
    /\ UNCHANGED <<pc, err, raw_files, series, monthly, gdp_monthly, frames, aligned_df,
                   analysis_df, stage, output, alt_series>>

NextAlign == Interpolate \/ Resample \/ Join \/ AltAlign

SpecAlign == InitAlign /\ [][NextAlign]_vars

----------------------------------------------------------------------------
(* One call of a feature stage on a table that may lack columns            *)
(* (specification SpecStage)                                               *)

\* the aligned table of the "full" inputs under value pattern v
AlignedFull(v) ==
    align_all_series_to_monthly(
        load_raw_series(RawFile("m2", "full", v)),
        load_raw_series(RawFile("cpi", "full", v)),
        load_raw_series(RawFile("gdp", "full", v)),
        load_raw_series(RawFile("fed_funds", "full", v)),
        load_raw_series(RawFile("tips_real_yield", "full", v)),
        load_raw_series(RawFile("btc", "full", v)),
        load_raw_series(RawFile("sp500", "full", v)),
        load_raw_series(RawFile("gold", "full", v))).df[1]

\* the columns stage k reads from the table it is passed
StageRequires(k) ==
    CASE k = 1 -> {"m2", "cpi", "gdp_monthly"}
      [] k = 2 -> {"btc_price", "sp500_price", "gold_price"}
      [] k = 3 -> {"fed_funds_rate", "cpi_yoy_pct"}
      [] k = 4 -> {"btc_return_monthly", "gold_return_monthly", "sp500_return_monthly",
                   "cash_real_return_monthly"}
      [] k = 5 -> {"m2_yoy_pct", "cpi_yoy_pct", "real_m2_growth", "m2_to_gdp"}
      [] k = 6 -> {"z_m2_yoy_pct", "z_cpi_yoy_pct", "z_real_m2_growth", "z_m2_to_gdp"}

\* build_analysis_dataframe at its first stage, on a copy of an aligned table
InitStage ==
    /\ pc = "build"
    /\ err = "none"
    /\ raw_files = NoFiles
    /\ series = NoSeries
    /\ monthly = << >>
    /\ gdp_monthly = << >>
    /\ \E v \in 1..NumPatterns : frames = <<AlignedFull(v)>>
    /\ stage = 1
    /\ aligned_df = 0
    /\ analysis_df = 1
    /\ output = NoOutput
    /\ alt_series = NoSeries
    /\ alt_result = NoResult

\* a caller about to pass stage `stage` the table at hand less some of the
\* columns the stage reads
PassTable ==
    /\ pc = "build"
    /\ stage \in 1..Len(StageNames)
    /\ pc' = "stage_call"
    /\ \E absent \in SUBSET StageRequires(stage) :
           frames' = <<drop_columns(frames[analysis_df], absent)>>
    /\ analysis_df' = 1
    /\ UNCHANGED <<err, raw_files, series, monthly, gdp_monthly, aligned_df, stage, output,
                   alt_series, alt_result>>

\* analysis_df = <stage function>(analysis_df), as a call on its own
CallStage ==
    /\ pc = "stage_call"
    /\ \E r \in {StageCall(stage, frames[analysis_df])} :
           IF r.err # "none"
           THEN /\ pc' = "stage_raised"
                /\ err' = r.err
                /\ frames' = [frames EXCEPT ![analysis_df] = r.arg]
                /\ analysis_df' = analysis_df
           ELSE /\ pc' = "stage_returned"
                /\ err' = err
                /\ IF r.fresh
                   THEN /\ frames' = Append([frames EXCEPT ![analysis_df] = r.arg], r.ret)
                        /\ analysis_df' = Len(frames) + 1
                   ELSE /\ frames' = [frames EXCEPT ![analysis_df] = r.ret]
                        /\ analysis_df' = analysis_df
    /\ UNCHANGED <<raw_files, series, monthly, gdp_monthly, aligned_df, stage, output,
                   alt_series, alt_result>>

NextStage == BuildStage \/ PassTable \/ CallStage

SpecStage == InitStage /\ [][NextStage]_vars
----------------------------------------------------------------------------
(* Properties of a run of main (specification Spec)                        *)

MonthEnds == {<<m, DaysInMonth(m)>> : m \in 0..MaxMonth}

IndexSet(df) == {df.index[i] : i \in 1..NRows(df)}

\* whether a monthly series holds a non-missing value at date d
HasValueAt(s, d) == \E i \in 1..Len(s) : s[i].date = d /\ ~isna(s[i].value)

\* whether a monthly series holds an entry at date d whose value is missing
HasMissingAt(s, d) == \E i \in 1..Len(s) : s[i].date = d /\ isna(s[i].value)

\* the month ends on or after BTC_SERIES_START at which each of the eight
\* monthly series holds a non-missing value
CommonMonthEnds ==
    {d \in MonthEnds :
        /\ DateLE(BTC_SERIES_START, d)
        /\ \A k \in 1..Len(AlignedColumns) :
               HasValueAt(MonthlySeries(monthly, gdp_monthly)[k], d)}

\* C1: the table align_all_series_to_monthly returns holds no missing value,
\* and its rows are exactly the month-end dates on or after BTC_SERIES_START
\* at which every one of the eight resampled/interpolated series has a
\* non-missing value (one row per such date).
C1_AlignedRowSet ==
    pc = "aligned" =>
        /\ \A i \in 1..NRows(frames[aligned_df]) : ~RowHasNaN(frames[aligned_df], i)
        /\ IndexSet(frames[aligned_df]) = CommonMonthEnds
        /\ NRows(frames[aligned_df]) = Cardinality(CommonMonthEnds)

\* a returned table with rows, a month end before BTC_SERIES_START that all
\* eight series cover, and a later month end left out for a missing value
C1_Witness ==
    /\ pc = "aligned"
    /\ NRows(frames[aligned_df]) > 0
    /\ \E d \in MonthEnds :
           /\ ~DateLE(BTC_SERIES_START, d)
           /\ \A k \in 1..Len(AlignedColumns) :
                  HasValueAt(MonthlySeries(monthly, gdp_monthly)[k], d)
    /\ \E d \in MonthEnds :
           /\ DateLE(BTC_SERIES_START, d)
           /\ d \notin IndexSet(frames[aligned_df])
           /\ \E k \in 1..Len(AlignedColumns) :
                  HasMissingAt(MonthlySeries(monthly, gdp_monthly)[k], d)

\* the positions of the observations of series s dated in month m
InMonth(s, m) == {i \in 1..Len(s) : s[i].date[1] = m}

\* the value of the latest-dated observation among the positions P of s
LatestValue(s, P) ==
    s[CHOOSE i \in P : \A j \in P : DateLE(s[j].date, s[i].date)].value

\* the value the resampled series of `name` holds at the end of month m
ResampledAt(name, m) == At(monthly[name], <<m, DaysInMonth(m)>>)

ResampledSet == {ResampledNames[k] : k \in 1..Len(ResampledNames)}

\* C5 as the specification states it: for every daily or monthly series and
\* every month in which it has an observation, the resampled month-end value
\* is the value of the latest-dated observation of that month.
C5_LatestObservation ==
    pc = "resampled" =>
        \A name \in ResampledSet : \A m \in 0..MaxMonth :
            InMonth(series[name], m) # {} =>
                /\ <<m, DaysInMonth(m)>> \in Dates(monthly[name])
                /\ ResampledAt(name, m) = LatestValue(series[name], InMonth(series[name], m))

\* C5, amended: the resampled month-end value is the value of the
\* latest-dated observation of that month whose value is not missing, and is
\* missing when every observation of the month is missing.
C5_LatestNonMissing ==
    pc = "resampled" =>
        \A name \in ResampledSet : \A m \in 0..MaxMonth :
            InMonth(series[name], m) # {} =>
                /\ <<m, DaysInMonth(m)>> \in Dates(monthly[name])
                /\ LET valid == {i \in InMonth(series[name], m) :
                                    ~isna(series[name][i].value)}
                   IN  ResampledAt(name, m) =
                           IF valid = {} THEN NaN ELSE LatestValue(series[name], valid)

\* a series resampled in a month whose last observation is missing while an
\* earlier one of the month is not
C5_Witness ==
    /\ pc = "resampled"
    /\ \E name \in ResampledSet : \E m \in 0..MaxMonth :
           /\ InMonth(series[name], m) # {}
           /\ isna(LatestValue(series[name], InMonth(series[name], m)))
           /\ ~isna(ResampledAt(name, m))

\* C6 as the specification states it: when the monthly series have no month
\* in common, align_all_series_to_monthly fails with AlignmentEmptyError and
\* returns no table, so it returns only when some month is common to all.
C6_NoCommonMonthRaises ==
    pc = "aligned" =>
        \E d \in MonthEnds :
            \A k \in 1..Len(AlignedColumns) :
                d \in Dates(MonthlySeries(monthly, gdp_monthly)[k])

\* the table main wrote, when it wrote one
Written == output.content[1]

DerivedColumns ==
    {"m2_yoy_pct", "cpi_yoy_pct", "real_m2_growth", "m2_to_gdp",
     "z_m2_yoy_pct", "z_cpi_yoy_pct", "z_real_m2_growth", "z_m2_to_gdp",
     "btc_return_monthly", "sp500_return_monthly", "gold_return_monthly",
     "cash_real_return_monthly",
     "btc_vs_cash_real_spread", "gold_vs_cash_real_spread", "sp500_vs_cash_real_spread",
     "zscore_composite_debasement_score"}

RawLevelColumns == {"m2", "cpi", "gdp_monthly", "btc_price", "sp500_price", "gold_price"}

\* C7: in every run of main the output is written at most once and only
\* after loading, alignment and feature engineering have all completed
\* without an error; a run in which one of them fails stops there and leaves
\* the output unwritten.
C7_WrittenOnceAfterSuccess ==
    /\ output.writes <= 1
    /\ output.writes = 0 => output = NoOutput
    /\ output.writes = 1 =>
           /\ pc = "saved"
           /\ err = "none"
           /\ \A name \in Names : raw_files[name].exists
           /\ series = [name \in Names |-> sort_index(raw_files[name].rows)]
           /\ aligned_df \in 1..Len(frames)
           /\ analysis_df \in 1..Len(frames)
           /\ "zscore_composite_debasement_score" \in Columns(frames[analysis_df])
           /\ \A i \in 1..NRows(frames[analysis_df]) : ~RowHasNaN(frames[analysis_df], i)
           /\ output.content = <<frames[analysis_df]>>
    /\ pc = "failed" => (err # "none" /\ output.writes = 0 /\ ~ENABLED Next)
    /\ err # "none" => pc = "failed"

\* a run that has written its output
C7_Witness ==
    /\ pc = "saved"
    /\ output.writes = 1
    /\ err = "none"
    /\ NRows(Written) > 0

\* C8: the persisted table holds all sixteen derived columns and none of the
\* raw level/price columns m2, cpi, gdp_monthly, btc_price, sp500_price,
\* gold_price.
C8_OutputColumns ==
    output.writes > 0 =>
        /\ DerivedColumns \subseteq Columns(Written)
        /\ Columns(Written) \cap RawLevelColumns = {}
        /\ Len(Written.names) = Cardinality(Columns(Written))

\* a written table with rows, built from an aligned table holding the six
\* raw level/price columns
C8_Witness ==
    /\ output.writes > 0
    /\ NRows(Written) > 1
    /\ RawLevelColumns \subseteq Columns(frames[aligned_df])
    /\ Cardinality(DerivedColumns) = 16

\* the numerators q = x - mean of the z-scores of column zname at the rows
\* `rows` of df (a z-score is q / sqrt(var))
ZNumerators(df, zname, rows) ==
    Tup([k \in 1..Len(rows) |->
            <<Col(df, zname)[rows[k]][1], Col(df, zname)[rows[k]][2]>>])

\* the variances var the z-scores of column zname carry at the rows `rows`
ZVariances(df, zname, rows) ==
    {<<Col(df, zname)[rows[k]][3], Col(df, zname)[rows[k]][4]>> : k \in 1..Len(rows)}

SumOfSquares(q) == RSum(Tup([k \in 1..Len(q) |-> RMul(q[k], q[k])]))

\* whether the z-scores q[k] / sqrt(var) have sample mean 0 and sample
\* standard deviation 1: sum q = 0, and sum q^2 / (n - 1) = var
IsStandardized(q, variances) ==
    /\ Len(q) >= 2
    /\ \A k \in 1..Len(q) : IsFinite(q[k])
    /\ RSum(q) = Int2R(0)
    /\ variances = {RDiv(SumOfSquares(q), Int2R(Len(q) - 1))}

AllRows(df) == Tup([i \in 1..NRows(df) |-> i])

\* the rows of df at which column name is not missing
PresentRows(df, name) ==
    Positions(NRows(df), LAMBDA i : ~isna(Col(df, name)[i]), << >>)

IndicatorSet == {DEBASEMENT_INDICATOR_COLUMNS[k] : k \in 1..Len(DEBASEMENT_INDICATOR_COLUMNS)}

\* C3 as the specification states it: in the table build_analysis_dataframe
\* returns, each of the four z-score columns has sample mean 0 and sample
\* standard deviation 1 over the rows of that table.
C3_StandardizedOverOutput ==
    (pc = "built" /\ NRows(frames[analysis_df]) >= 2) =>
        \A c \in IndicatorSet :
            IsStandardized(ZNumerators(frames[analysis_df], ZName(c), AllRows(frames[analysis_df])),
                           ZVariances(frames[analysis_df], ZName(c), AllRows(frames[analysis_df])))

\* whether column name of df holds at least two non-missing values, not all
\* equal and all finite
Varies(df, name) ==
    /\ \E i, j \in 1..NRows(df) :
           /\ ~isna(Col(df, name)[i])
           /\ ~isna(Col(df, name)[j])
           /\ Col(df, name)[i] # Col(df, name)[j]
    /\ \A i \in 1..NRows(df) : isna(Col(df, name)[i]) \/ IsFinite(Col(df, name)[i])

\* C3, amended: each z-score column has sample mean 0 and sample standard
\* deviation 1 over the rows of the feature table as standardization saw it,
\* before the final row drop, at which its indicator is not missing (the
\* indicator having two or more such values, finite and not all equal); it
\* is missing at the other rows.
C3_StandardizedOverFullSample ==
    (pc = "build" /\ stage = Len(StageNames) + 1) =>
        \A c \in IndicatorSet :
            Varies(frames[analysis_df], c) =>
                /\ IsStandardized(
                       ZNumerators(frames[analysis_df], ZName(c),
                                   PresentRows(frames[analysis_df], c)),
                       ZVariances(frames[analysis_df], ZName(c),
                                  PresentRows(frames[analysis_df], c)))
                /\ \A i \in 1..NRows(frames[analysis_df]) :
                       isna(Col(frames[analysis_df], c)[i])
                           <=> isna(Col(frames[analysis_df], ZName(c))[i])

\* a feature table, before the final drop, in which all four indicators
\* vary and one of them is missing at some rows and present at others
C3_Witness ==
    /\ pc = "build"
    /\ stage = Len(StageNames) + 1
    /\ \A c \in IndicatorSet : Varies(frames[analysis_df], c)
    /\ \E c \in IndicatorSet :
           /\ Len(PresentRows(frames[analysis_df], c)) < NRows(frames[analysis_df])
           /\ Len(PresentRows(frames[analysis_df], "m2_to_gdp")) >
                  Len(PresentRows(frames[analysis_df], c))

\* the four z-scores of row i of df, in the order of the indicator columns
RowZScores(df, i) ==
    Tup([k \in 1..Len(DEBASEMENT_INDICATOR_COLUMNS) |->
            Col(df, ZName(DEBASEMENT_INDICATOR_COLUMNS[k]))[i]])

\* whether the tuples s and t hold the same values up to their order
SameTerms(s, t) ==
    /\ Len(s) = Len(t)
    /\ \E f \in [1..Len(s) -> 1..Len(s)] :
           /\ \A a, b \in 1..Len(s) : f[a] = f[b] => a = b
           /\ \A a \in 1..Len(s) : s[a] = t[f[a]]

\* C4: in every row of the table build_analysis_dataframe returns,
\* zscore_composite_debasement_score is the sum of the row's four z-scores
\* divided by 4, never a mean over fewer than four of them.
C4_CompositeIsMeanOfFour ==
    pc = "built" =>
        \A i \in 1..NRows(frames[analysis_df]) :
            /\ \A k \in 1..4 : ~isna(RowZScores(frames[analysis_df], i)[k])
            /\ Col(frames[analysis_df], "zscore_composite_debasement_score")[i][1] = 1
            /\ Col(frames[analysis_df], "zscore_composite_debasement_score")[i][2] = 4
            /\ SameTerms(Col(frames[analysis_df], "zscore_composite_debasement_score")[i][3],
                         RowZScores(frames[analysis_df], i))

\* a returned table with rows whose z-scores differ, built from a feature
\* table in which the composite of some row averaged fewer than four z-scores
C4_Witness ==
    /\ pc = "built"
    /\ NRows(frames[analysis_df]) >= 2
    /\ \E i \in 1..NRows(frames[analysis_df]) : \E j, k \in 1..4 :
           RowZScores(frames[analysis_df], i)[j] # RowZScores(frames[analysis_df], i)[k]
    /\ \E i \in 1..NRows(frames[analysis_df - 1]) :
           Col(frames[analysis_df - 1], "zscore_composite_debasement_score")[i][2] \in 1..3
----------------------------------------------------------------------------
(* Properties of a stage call (specification SpecStage)                    *)

\* the table the stage was passed: stages assign in place and add none of
\* the columns of StageRequires, so a column absent when the call was made
\* is still absent from it afterwards
PassedTable == frames[1]

StageCalled == pc \in {"stage_raised", "stage_returned"}

StageAssignSet(k) ==
    {StageAssigns(StageNames[k])[j] : j \in 1..Len(StageAssigns(StageNames[k]))}

----------------------------------------------------------------------------
(* Properties of the alignment (specification SpecAlign)                   *)

\* the observations of a series dated at or before the end of month t
UpTo(s, t) == SelectSeq(s, LAMBDA r : r.date[1] <= t)

\* whether the inputs of the two runs agree on every observation dated at
\* or before the end of month t
AgreeUpTo(t) == \A name \in Names : UpTo(series[name], t) = UpTo(alt_series[name], t)

\* the row of df for month t, all columns (<< >> when df has no such row)
RowOfMonth(df, t) ==
    IF <<t, DaysInMonth(t)>> \notin IndexSet(df) THEN << >>
    ELSE Tup([k \in 1..Len(df.names) |->
                 df.data[k][CHOOSE i \in 1..NRows(df) : df.index[i] = <<t, DaysInMonth(t)>>]])

BothAligned == pc = "aligned" /\ alt_result.err = "none"

\* C2 as the specification states it: when two runs' inputs agree on every
\* observation dated at or before the end of month t, the aligned table's
\* row for month t is the same in both runs, whatever comes after month t.
C2_NoLookAhead ==
    BothAligned =>
        \A t \in 0..MaxMonth :
            AgreeUpTo(t) =>
                RowOfMonth(frames[aligned_df], t) = RowOfMonth(alt_result.df[1], t)

\* the non-missing observations of the quarterly series
Anchors == dropna(series["gdp"])

\* C10: for every non-missing observation of the quarterly series, the
\* monthly series interpolate_gdp_to_monthly returns holds exactly one entry
\* at the observation's date, and its value is the observation's value; the
\* entries are the month starts from the first to the last such observation.
C10_AnchorsReproduced ==
    pc = "interpolated" =>
        /\ \A i \in 1..Len(Anchors) :
               /\ Cardinality({j \in 1..Len(gdp_monthly) :
                                  gdp_monthly[j].date = Anchors[i].date}) = 1
               /\ At(gdp_monthly, Anchors[i].date) = Anchors[i].value
        /\ Dates(gdp_monthly) =
               {<<m, 1>> : m \in Anchors[1].date[1]..Anchors[Len(Anchors)].date[1]}
        /\ Len(gdp_monthly) = Cardinality(Dates(gdp_monthly))

\* an interpolation over four or more anchors whose values bend, with a
\* missing quarterly observation among them and an interpolated month that
\* takes the value of neither anchor next to it
C10_Witness ==
    /\ pc = "interpolated"
    /\ Len(Anchors) >= 4
    /\ Len(Anchors) < Len(series["gdp"])
    /\ \E i \in 2..(Len(Anchors) - 1) :
           RSub(Anchors[i + 1].value, Anchors[i].value)
               # RSub(Anchors[i].value, Anchors[i - 1].value)
    /\ \E j \in 2..(Len(gdp_monthly) - 1) :
           /\ gdp_monthly[j].date \notin Dates(Anchors)
           /\ \A i \in 1..Len(Anchors) : gdp_monthly[j].value # Anchors[i].value
----------------------------------------------------------------------------
(* Properties of build_analysis_dataframe (specification Spec)             *)

\* the table build_analysis_dataframe returns, once it has returned
Returned == frames[analysis_df]

\* the feature-augmented table, after stages 1 to 6, that the final row drop
\* was applied to: the table allocated just before the returned one
Augmented == frames[analysis_df - 1]

\* row i of df, index and all columns
FullRow(df, i) == <<df.index[i], Tup([k \in 1..Len(df.names) |-> df.data[k][i]])>>

\* the rows of df that hold no missing value, in order
CompleteRows(df) ==
    SelectSeq(Tup([i \in 1..NRows(df) |-> FullRow(df, i)]),
              LAMBDA r : \A k \in 1..Len(r[2]) : ~isna(r[2][k]))

\* C11: the table build_analysis_dataframe returns holds no missing value in
\* any column, and its rows are exactly the rows of the feature-augmented
\* table (after stages 1 to 6) in which no column is missing, in the same
\* order and with the same columns: no complete row is dropped.
C11_DropsExactlyIncompleteRows ==
    pc = "built" =>
        /\ \A i \in 1..NRows(Returned) : ~RowHasNaN(Returned, i)
        /\ Returned.names = Augmented.names
        /\ Tup([i \in 1..NRows(Returned) |-> FullRow(Returned, i)]) = CompleteRows(Augmented)

\* a build whose augmented table held both rows with a missing value and
\* rows without one
C11_Witness ==
    /\ pc = "built"
    /\ NRows(Returned) > 0
    /\ NRows(Returned) < NRows(Augmented)
    /\ "zscore_composite_debasement_score" \in Columns(Augmented)
    /\ \E i \in 1..NRows(Augmented) :
           /\ RowHasNaN(Augmented, i)
           /\ ~isna(Col(Augmented, "zscore_composite_debasement_score")[i])

\* the stage numbers, 1 to 6
StageNumbers == 1..Len(StageNames)

\* the columns stage k assigns and the columns it drops
AssignedBy(k) == {StageAssigns(StageNames[k])[j] : j \in 1..Len(StageAssigns(StageNames[k]))}

DroppedBy(k) == StageDrops(StageNames[k])

AlignedColumnSet == {AlignedColumns[k] : k \in 1..Len(AlignedColumns)}

\* the columns of the table after the stages before k, run in the order
\* indicators, returns, cash real return, spreads, standardization, composite
RECURSIVE ColumnsBefore(_)
ColumnsBefore(k) ==
    IF k = 1 THEN AlignedColumnSet
    ELSE (ColumnsBefore(k - 1) \cup AssignedBy(k - 1)) \ DroppedBy(k - 1)

\* whether every assignment of stage k reads only columns that the table
\* holds when the assignment runs: columns of cols or columns the stage has
\* itself assigned before, and the stage drops only columns it then holds
ReadsPresent(k, cols) ==
    /\ \A i \in 1..Len(StageAssigns(StageNames[k])) :
           ColumnReads(StageAssigns(StageNames[k])[i])
               \subseteq cols \cup {StageAssigns(StageNames[k])[j] : j \in 1..(i - 1)}
    /\ DroppedBy(k) \subseteq cols \cup AssignedBy(k)

\* C12: on an aligned table holding the eight aligned columns, the six
\* stages run in the order indicators, returns, cash real return, spreads,
\* standardization, composite; when a stage runs the table holds exactly the
\* aligned columns plus those the earlier stages derived less those they
\* dropped, every column the stage reads is among them or derived earlier in
\* the same stage, and no stage fails on an absent column.
C12_StagesReadPresentColumns ==
    /\ StageNames = <<"compute_debasement_indicators", "compute_asset_returns",
                      "compute_cash_real_return", "compute_spread_features",
                      "standardize_debasement_indicators",
                      "compute_zscore_composite_debasement_score">>
    /\ err # "KeyError"
    /\ pc = "build" =>
           /\ stage \in 1..(Len(StageNames) + 1)
           /\ Columns(frames[analysis_df]) = ColumnsBefore(stage)
           /\ stage \in StageNumbers => ReadsPresent(stage, Columns(frames[analysis_df]))

\* the spreads stage about to run on a table with rows: it reads columns
\* that stages 2 and 3 derived, after the raw price columns were dropped
C12_Witness ==
    /\ pc = "build"
    /\ stage = 4
    /\ NRows(frames[analysis_df]) > 0
    /\ "cash_real_return_monthly" \in Columns(frames[analysis_df])
    /\ "btc_price" \notin Columns(frames[analysis_df])
    /\ "btc_price" \in Columns(frames[aligned_df])

\* the table align_all_series_to_monthly returned to main, recomputed from
\* the monthly series the alignment joined
AlignedAsReturned == join_clip_dropna(monthly, gdp_monthly)

\* C13: after build_analysis_dataframe returns, the aligned table passed to
\* it is unchanged (same rows, same columns, same values), the returned
\* table is a distinct table, and no column a stage added in place is
\* visible through the caller's aligned table.
C13_AlignedTableUntouched ==
    pc \in {"build", "built", "saved"} =>
        /\ aligned_df # analysis_df
        /\ frames[aligned_df] = AlignedAsReturned
        /\ Columns(frames[aligned_df]) = AlignedColumnSet

\* a build that has returned, whose stages added columns in place to the
\* copy of an aligned table with rows
C13_Witness ==
    /\ pc = "built"
    /\ NRows(frames[aligned_df]) > 0
    /\ Columns(frames[aligned_df + 1]) # Columns(frames[aligned_df])
    /\ "m2_yoy_pct" \in Columns(frames[aligned_df + 1])
    /\ frames[aligned_df + 1].index = frames[aligned_df].index

\* the month-end level of series `name` at month m (missing when the
\* resampled series holds no entry for the month)
LevelAt(name, m) ==
    IF <<m, DaysInMonth(m)>> \in Dates(monthly[name])
    THEN At(monthly[name], <<m, DaysInMonth(m)>>)
    ELSE NaN

\* the percent change between the levels of `name` at month m and at the
\* month 12 calendar months before it
YearOverYear(name, m) ==
    RMul(RSub(RDiv(LevelAt(name, m), LevelAt(name, m - 12)), Int2R(1)), Int2R(100))

\* C14 as the specification states it: in every row of the output,
\* m2_yoy_pct and cpi_yoy_pct at month t are the percent change between the
\* level at month t and the level 12 calendar months before t, also when the
\* aligned table lacks some months in between.
C14_YoYOverCalendarYear ==
    pc = "built" =>
        \A i \in 1..NRows(Returned) :
            /\ Col(Returned, "m2_yoy_pct")[i] = YearOverYear("m2", Returned.index[i][1])
            /\ Col(Returned, "cpi_yoy_pct")[i] = YearOverYear("cpi", Returned.index[i][1])

====
